---- MODULE Spec2Model ----
(***************************************************************************)
(* Model of plugin-apt-versions: the version normaliser getVersion and the *)
(* line parser getPackages of internal/packages.go.                        *)
(*                                                                         *)
(* A Go string is a sequence of one-character strings.  Positions are      *)
(* 1-based; a search that finds nothing returns 0 where Go returns -1.     *)
(***************************************************************************)
EXTENDS Integers, Sequences, FiniteSets, TLC

VARIABLES version, normalized, pc, packageData, packages, steps, ppc

\* One call of a package collector: the implementation called, what the
\* command did (exit status, standard output, standard error, and for the
\* collector with one buffer where the error text landed in it), and what the
\* call returned, logged and parsed.
VARIABLES collector, dpkgExit, dpkgStdout, dpkgStderr, mergeAt,
          collected, collectedSteps, collectErr, logged, parserRuns, cpc

collectorVars == <<collector, dpkgExit, dpkgStdout, dpkgStderr, mergeAt,
                   collected, collectedSteps, collectErr, logged, parserRuns, cpc>>

\* The plugin over one scheduled execution: the data PrepareForEval stored,
\* the calls of the collector and of Eval so far, and the Eval call under way
\* or last returned: its data, its number of policy paths, the path it is at,
\* the paths whose policy was executed and whose result was created, the
\* policy results and the response of the last path, and what it returned.
VARIABLES pluginData, collectorCalls, evalCalls, evalData, paths, path, executed,
          created, results, response, evalStatus, evalErr, epc

pluginVars == <<pluginData, collectorCalls, evalCalls, evalData, paths, path, executed,
                created, results, response, evalStatus, evalErr, epc>>

vars == <<version, normalized, pc, packageData, packages, steps, ppc, collectorVars,
          pluginVars>>

\* Longest raw version string given to getVersion.
MaxLen == 5
\* Longest listing text given to getPackages.
MaxText == 8
\* Longest standard output of the listing command.
MaxStdout == 6
\* Most entries of the JSON document the piped command prints.
MaxEntries == 2
\* Most policy paths of one Eval request.
MaxPaths == 2
\* Most policy results one policy execution returns.
MaxResults == 2
\* Most violations of one policy result.
MaxViolations == 2
\* Most Eval calls of one scheduled execution.
MaxEvals == 2

\* Characters of the raw version strings: digits, a letter, the segment
\* separator, the epoch separator and the three suffix characters.
VersionChars == {"0", "1", "a", ".", ":", "-", "+", "~"}
\* Characters of the listing text: a name or version character of each
\* kind, the token separator and the line separator.
TextChars == {"a", "1", " ", "\n"}

Digits == {"0", "1", "2", "3", "4", "5", "6", "7", "8", "9"}

\* The strings of at most n characters of chars.
StringsOver(chars, n) == UNION {[1..k -> chars] : k \in 0..n}

(***************************************************************************)
(* Go's strings package.                                                   *)
(***************************************************************************)
RECURSIVE IndexAnyFrom(_, _, _)
IndexAnyFrom(s, chars, i) ==
    IF i > Len(s) THEN 0
    ELSE IF s[i] \in chars THEN i
    ELSE IndexAnyFrom(s, chars, i + 1)

\* strings.IndexAny(s, chars): the first position of any of chars, 0 if none.
IndexAny(s, chars) == IndexAnyFrom(s, chars, 1)

\* strings.Index(s, sep) for a one-character sep.
Index(s, sep) == IndexAnyFrom(s, {sep}, 1)

\* strings.Split(s, sep) for a one-character sep: one more part than
\* separators, so the empty string splits into one empty part.
RECURSIVE Split(_, _)
Split(s, sep) ==
    LET i == Index(s, sep)
    IN  IF i = 0 THEN <<s>>
        ELSE <<SubSeq(s, 1, i - 1)>> \o Split(SubSeq(s, i + 1, Len(s)), sep)

\* strings.Join(parts, sep).
RECURSIVE Join(_, _)
Join(parts, sep) ==
    IF Len(parts) = 0 THEN <<>>
    ELSE IF Len(parts) = 1 THEN parts[1]
    ELSE parts[1] \o <<sep>> \o Join(Tail(parts), sep)

(***************************************************************************)
(* getVersion, step by step.                                               *)
(***************************************************************************)
\* StripEpoch with the slice started one position early: the ':' is kept.
StripEpochKeepsColon(v) ==
    LET colonIndex == Index(v, ":")
    IN  IF colonIndex # 0 THEN SubSeq(v, colonIndex, Len(v)) ELSE v

\* The text after the first ':' when there is one.
StripEpoch(v) ==
    LET colonIndex == Index(v, ":")
    IN  IF colonIndex # 0 THEN SubSeq(v, colonIndex + 1, Len(v)) ELSE v

\* StripSuffix with '~' left out of the characters looked for.
StripSuffixNoTilde(v) ==
    LET dashIndex == IndexAny(v, {"-", "+"})
    IN  IF dashIndex # 0 THEN SubSeq(v, 1, dashIndex - 1) ELSE v

\* The text before the first of '-', '+', '~' when there is one.
StripSuffix(v) ==
    LET dashIndex == IndexAny(v, {"-", "+", "~"})
    IN  IF dashIndex # 0 THEN SubSeq(v, 1, dashIndex - 1) ELSE v

\* The inner loop of the first pass: the part is cut at its first character
\* that is no digit; a part of digits only is left as it is.
RECURSIVE KeepNumberFrom(_, _)
KeepNumberFrom(part, j) ==
    IF j > Len(part) THEN part
    ELSE IF part[j] \in Digits THEN KeepNumberFrom(part, j + 1)
    ELSE SubSeq(part, 1, j - 1)

\* KeepNumber that skips the characters that are no digits instead of
\* stopping at the first.
KeepDigitsAnywhere(part) == SelectSeq(part, LAMBDA c : c \in Digits)

KeepNumber(part) == KeepNumberFrom(part, 1)

\* The inner loop of the second pass: the part starts at its first character
\* that is not '0'; a part with no such character is left as it is.
RECURSIVE RemoveLeadingZerosFrom(_, _)
RemoveLeadingZerosFrom(part, j) ==
    IF j > Len(part) THEN part
    ELSE IF part[j] # "0" THEN SubSeq(part, j, Len(part))
    ELSE RemoveLeadingZerosFrom(part, j + 1)

\* RemoveLeadingZeros that removes one leading '0' only.
RemoveOneLeadingZero(part) ==
    IF Len(part) > 1 /\ part[1] = "0" THEN Tail(part) ELSE part

RemoveLeadingZeros(part) == RemoveLeadingZerosFrom(part, 1)

\* ThreeParts without the branch that drops the parts after the third.
RECURSIVE PadOnly(_)
PadOnly(parts) ==
    IF Len(parts) < 3 THEN PadOnly(Append(parts, <<"0">>)) ELSE parts

\* Exactly three parts: "0" appended while there are fewer, the rest dropped
\* when there are more.
RECURSIVE ThreeParts(_)
ThreeParts(parts) ==
    IF Len(parts) < 3 THEN ThreeParts(Append(parts, <<"0">>))
    ELSE IF Len(parts) > 3 THEN SubSeq(parts, 1, 3)
    ELSE parts

\* getVersion from the suffix strip on: what it does to the text the epoch
\* strip leaves.
NormalizeAfterEpoch(v) ==
    LET stripped == StripSuffix(v)
        parts    == Split(stripped, ".")
        numbers  == [i \in 1..Len(parts) |-> KeepNumber(parts[i])]
        nozeros  == [i \in 1..Len(parts) |-> RemoveLeadingZeros(numbers[i])]
    IN  Join(ThreeParts(nozeros), ".")

getVersion(v) == NormalizeAfterEpoch(StripEpoch(v))

(***************************************************************************)
(* getPackages.                                                            *)
(***************************************************************************)
\* MapPut that leaves an entry the map already holds.
MapPutFirst(m, k, val) ==
    IF k \in DOMAIN m THEN m ELSE [n \in DOMAIN m \cup {k} |-> IF n = k THEN val ELSE m[n]]

\* packages[packageName] = packageVersion on a Go map.
MapPut(m, k, val) == [n \in DOMAIN m \cup {k} |-> IF n = k THEN val ELSE m[n]]

\* ParseLine that takes a line of more than two parts by its first two.
ParseLineLoose(m, line) ==
    IF Len(line) = 0 THEN m
    ELSE LET parts == Split(line, " ")
         IN  IF Len(parts) < 2 THEN m
             ELSE MapPut(m, parts[1], getVersion(parts[2]))

\* ParseLine that stores the raw version, not getVersion of it.
ParseLineRaw(m, line) ==
    IF Len(line) = 0 THEN m
    ELSE LET parts == Split(line, " ")
         IN  IF Len(parts) # 2 THEN m
             ELSE MapPut(m, parts[1], parts[2])

\* One iteration of the loop over the lines.
ParseLine(m, line) ==
    IF Len(line) = 0 THEN m
    ELSE LET parts == Split(line, " ")
         IN  IF Len(parts) # 2 THEN m
             ELSE MapPut(m, parts[1], getVersion(parts[2]))

RECURSIVE ParseLines(_, _)
ParseLines(m, lines) ==
    IF Len(lines) = 0 THEN m
    ELSE ParseLines(ParseLine(m, Head(lines)), Tail(lines))

EmptyMap == [n \in {} |-> <<>>]

\* The map and the one diagnostic step getPackages returns.
getPackages(text) ==
    LET m == ParseLines(EmptyMap, Split(text, "\n"))
    IN  [packages |-> m,
         steps    |-> << [Title      |-> "Retrieved all installed packages and normalised versions",
                          Normalized |-> Cardinality(DOMAIN m)] >>]

(***************************************************************************)
(* GetInstalledPackages of internal/packages.go.                           *)
(***************************************************************************)
\* A nil map, and a map that is not nil.
NilPackages == [isNil |-> TRUE, entries |-> EmptyMap]

SomePackages(m) == [isNil |-> FALSE, entries |-> m]

InstalledStep == [Title |-> "Get installed packages"]

\* GetInstalledPackages that parses what was printed also after a failure.
GetInstalledPackagesPartial(exit, stdout, stderr) ==
    LET r == getPackages(stdout)
    IN  [packages   |-> SomePackages(r.packages),
         steps      |-> <<InstalledStep>> \o r.steps,
         err        |-> IF exit # 0 THEN "error running dpkg-query" ELSE "nil",
         logged     |-> IF Len(stderr) > 0 THEN <<"warn">> ELSE <<>>,
         parserRuns |-> 1]

\* GetInstalledPackages that appends the step of getPackages before its own.
GetInstalledPackagesStepsSwapped(exit, stdout, stderr) ==
    IF exit # 0
    THEN [packages   |-> NilPackages,
          steps      |-> <<InstalledStep>>,
          err        |-> "error running dpkg-query",
          logged     |-> IF Len(stderr) > 0 THEN <<"error">> ELSE <<>>,
          parserRuns |-> 0]
    ELSE LET r == getPackages(stdout)
         IN  [packages   |-> SomePackages(r.packages),
              steps      |-> r.steps \o <<InstalledStep>>,
              err        |-> "nil",
              logged     |-> IF Len(stderr) > 0 THEN <<"warn">> ELSE <<>>,
              parserRuns |-> 1]

\* What GetInstalledPackages returns and logs when the command ended with
\* exit, having written stdout and stderr to the two buffers.
GetInstalledPackages(exit, stdout, stderr) ==
    IF exit # 0
    THEN [packages   |-> NilPackages,
          steps      |-> <<InstalledStep>>,
          err        |-> "error running dpkg-query",
          logged     |-> IF Len(stderr) > 0 THEN <<"error">> ELSE <<>>,
          parserRuns |-> 0]
    ELSE LET r == getPackages(stdout)
         IN  [packages   |-> SomePackages(r.packages),
              steps      |-> <<InstalledStep>> \o r.steps,
              err        |-> "nil",
              logged     |-> IF Len(stderr) > 0 THEN <<"warn">> ELSE <<>>,
              parserRuns |-> 1]

(***************************************************************************)
(* DebianVersionCollector.GetInstalledPackages of                          *)
(* internal/debian-collector.go.  The piped command prints a JSON          *)
(* document: "{", the entries "name": "version" with "," before every      *)
(* entry but the first, "}".  The document is a sequence of these tokens;  *)
(* a piece of diagnostic text is a token of kind "stderr".                 *)
(***************************************************************************)
Token(kind) == [kind |-> kind]

\* The token of one "name": "version".
Entry(name, ver) == [kind |-> "entry", name |-> name, version |-> ver]

\* What awk prints for the entries sed made.
RECURSIVE JsonEntries(_)
JsonEntries(entries) ==
    IF Len(entries) = 0 THEN <<>>
    ELSE IF Len(entries) = 1 THEN <<entries[1]>>
    ELSE <<entries[1], Token(",")>> \o JsonEntries(Tail(entries))

JsonDocument(entries) == <<Token("{")>> \o JsonEntries(entries) \o <<Token("}")>>

Invalid == [ok |-> FALSE, packages |-> NilPackages]

\* The members of a JSON object between its braces: entries with "," between
\* them.  The map they give (a later entry of a name replaces an earlier
\* one), or Invalid.
RECURSIVE JsonMembers(_, _)
JsonMembers(tokens, m) ==
    IF Len(tokens) = 0 THEN Invalid
    ELSE IF tokens[1].kind # "entry" THEN Invalid
    ELSE LET put == MapPut(m, tokens[1].name, tokens[1].version)
         IN  IF Len(tokens) = 1 THEN [ok |-> TRUE, packages |-> SomePackages(put)]
             ELSE IF tokens[2].kind # "," THEN Invalid
             ELSE JsonMembers(SubSeq(tokens, 3, Len(tokens)), put)

\* json.Unmarshal into a map: the map of a well-formed document, Invalid
\* for anything else.
jsonUnmarshal(tokens) ==
    IF Len(tokens) < 2 THEN Invalid
    ELSE IF tokens[1].kind # "{" \/ tokens[Len(tokens)].kind # "}" THEN Invalid
    ELSE IF Len(tokens) = 2 THEN [ok |-> TRUE, packages |-> SomePackages(EmptyMap)]
    ELSE JsonMembers(SubSeq(tokens, 2, Len(tokens) - 1), EmptyMap)

\* The one buffer both streams are written to: the error text lands after
\* the first at tokens of the standard output.
MergedOutput(stdout, stderr, at) ==
    SubSeq(stdout, 1, at) \o stderr \o SubSeq(stdout, at + 1, Len(stdout))

\* What the collector returns when the command ended with exit and the one
\* buffer holds output.
DebianGetInstalledPackages(exit, output) ==
    IF exit # 0
    THEN [packages |-> NilPackages, output |-> <<>>,
          err |-> "error running dpkg-query", parserRuns |-> 0]
    ELSE LET parsed == jsonUnmarshal(output)
         IN  IF ~parsed.ok
             THEN [packages |-> NilPackages, output |-> output,
                   err |-> "error parsing JSON output", parserRuns |-> 1]
             ELSE [packages |-> parsed.packages, output |-> output,
                   err |-> "nil", parserRuns |-> 1]

(***************************************************************************)
(* AptVersion.Eval of main.go.  A policy result is its number of           *)
(* violations.  An observation and a finding carry, besides their fields,  *)
(* the position (result) of the policy result they were made for.          *)
(***************************************************************************)
\* uuid.New(): the n-th UUID made in the turn of the loop for a path of an
\* Eval call; no two calls of uuid.New() return the same.
NewUuid(turn, n) == [eval |-> turn.eval, path |-> turn.path, n |-> n]

\* The UUID of a finding that was given none.
NoUuid == [eval |-> 0, path |-> 0, n |-> 0]

\* The observation and the finding of a policy result without violations;
\* the finding has no UUID and no related observation.
CompliantRecords(r, turn, n) ==
    [observations |-> << [uuid |-> NewUuid(turn, n), result |-> r] >>,
     findings     |-> << [uuid |-> NoUuid, state |-> "satisfied", related |-> <<>>,
                          result |-> r] >>,
     made         |-> n]

\* The observation of a policy result with violations and one finding for
\* each, related to that observation.
ViolationRecords(r, violations, turn, n) ==
    [observations |-> << [uuid |-> NewUuid(turn, n), result |-> r] >>,
     findings     |-> [i \in 1..violations |->
                          [uuid |-> NewUuid(turn, n + i), state |-> "not-satisfied",
                           related |-> << NewUuid(turn, n) >>, result |-> r]],
     made         |-> n + violations]

\* ResultRecords whose first test is len(Violations) >= 0: every policy
\* result gets the observation and the finding of a compliant one as well.
ResultRecordsAlwaysCompliant(r, violations, turn, n) ==
    LET a == CompliantRecords(r, turn, n)
        b == IF violations > 0 THEN ViolationRecords(r, violations, turn, a.made + 1)
             ELSE [observations |-> <<>>, findings |-> <<>>, made |-> a.made]
    IN  [observations |-> a.observations \o b.observations,
         findings     |-> a.findings \o b.findings,
         made         |-> b.made]

\* The body of the loop over the policy results: what one policy result adds
\* to the response, n being the first UUID not yet made.
ResultRecords(r, violations, turn, n) ==
    IF violations = 0 THEN CompliantRecords(r, turn, n)
    ELSE ViolationRecords(r, violations, turn, n)

\* The loop over the policy results from the r-th on.
RECURSIVE BuildResponseFrom(_, _, _, _)
BuildResponseFrom(policyResults, r, turn, n) ==
    IF r > Len(policyResults)
    THEN [observations |-> <<>>, findings |-> <<>>]
    ELSE LET one  == ResultRecords(r, policyResults[r], turn, n)
             rest == BuildResponseFrom(policyResults, r + 1, turn, one.made + 1)
         IN  [observations |-> one.observations \o rest.observations,
              findings     |-> one.findings \o rest.findings]

\* The response built in the turn of the loop for a path.
BuildResponse(policyResults, turn) == BuildResponseFrom(policyResults, 1, turn, 1)

NoResponse == [observations |-> <<>>, findings |-> <<>>]

\* The package maps a collection may return: those of main_test.go.
HostPackages == {[wget |-> "1.20.3"], [wget |-> "1.19.2"]}

\* What a policy execution may return.
PolicyResults == StringsOver(0..MaxViolations, MaxResults)

(***************************************************************************)
(* The inputs.                                                             *)
(***************************************************************************)
\* The raw versions of the package's tests.
TestVersions ==
    { <<"1", ".", "2", ".", "3">>,
      <<"2", ":", "1", ".", "2", ".", "3">>,
      <<"2", "4", ":", "1", ".", "2">>,
      <<"1", ".", "2", ".", "3", "-", "1", "~", "u", "b", "u", "n", "t", "u", "1">>,
      <<"1", ".", "2", "-", "1", "u", "b", "u", "n", "t", "u", "1", "+", "f", "o", "o">>,
      <<"2", "5", ".", "2", ".", "3", "5", "+", "u", "b", "u", "n", "t", "u", "1">>,
      <<"1", ".", "2", ".", "3", "u", "b", "u", "n", "t", "u", "1">>,
      <<"2", "5", ".", "2", "2", "u", "b", "u", "n", "t", "u", "1">>,
      <<"2", "5", ".", "2", "2", "u", "b", "u", "n", "t", "u", "1", ".", "4", "4", "m", "y", "s", "t", "r", "i", "n", "g", "1">>,
      <<"0", "1", ".", "2", ".", "3">>,
      <<"2", "5", ".", "0", "2">>,
      <<"1", ".", "2">>,
      <<"2", "5", ".", "2", ".", "5", ".", "1", ".", "6">>,
      <<"1", ":", "9", ".", "6", "p", "1", "-", "3", "u", "b", "u", "n", "t", "u", "1", "3", ".", "8">>,
      <<"2", "4", ".", "0", "0", "4", ".", "6", "0", "-", "1", "u", "b", "u", "n", "t", "u", "7", ".", "1">>,
      <<"2", "0", "2", "0", "0", "5", "0", "5", "d", "f", "s", "g", "0", "-", "2", "u", "b", "u", "n", "t", "u", "6">> }

\* Every short string over VersionChars, and the tests' raw versions.
RawVersions == StringsOver(VersionChars, MaxLen) \cup TestVersions

\* Listings of the package's tests.
TestListings ==
    { <<"m", "y", "c", "o", "o", "l", "p", "a", "c", "k", "a", "g", "e", " ", "1", ".", "2", ".", "3", "\n">>,
      <<"m", "y", "c", "o", "o", "l", "p", "a", "c", "k", "a", "g", "e", " ", "2", ":", "1", ".", "2", ".", "3", "\n">>,
      <<"a", "c", "c", "o", "u", "n", "t", "s", "s", "e", "r", "v", "i", "c", "e", " ", "2", "3", ".", "1", "3", ".", "9", "-", "2", "u", "b", "u", "n", "t", "u", "6", "\n", "a", "c", "l", " ", "2", ".", "3", ".", "2", "-", "1", "b", "u", "i", "l", "d", "1", ".", "1", "\n", "a", "d", "d", "u", "s", "e", "r", " ", "3", ".", "1", "3", "7", "u", "b", "u", "n", "t", "u", "1">> }

\* Every short text over TextChars, and the tests' listings.
Listings == StringsOver(TextChars, MaxText) \cup TestListings

\* The exit statuses of the command: success, and two of failure.
ExitStatuses == {0, 1, 2}

\* What the command may write to standard error: nothing, or a text that
\* reads like a line of the listing.
StderrTexts == {<<>>, <<"a", " ", "1", "\n">>}

\* What the listing command may write to standard output.
StdoutTexts == StringsOver(TextChars, MaxStdout) \cup TestListings

\* The entries the piped command may print: the packages of main_test.go.
JsonEntrySet == {Entry("wget", "1.20.3"), Entry("wget", "1.19.2"), Entry("acl", "2.3.2")}

\* The documents the piped command may print.
JsonDocuments == {JsonDocument(e) : e \in StringsOver(JsonEntrySet, MaxEntries)}

(***************************************************************************)
(* The state machines: one call of getVersion, one call of getPackages,    *)
(* one call of a collector.                                                *)
(***************************************************************************)
\* No collector is called.
CollectorIdle ==
    /\ collector = "none"
    /\ dpkgExit = 0
    /\ dpkgStdout = <<>>
    /\ dpkgStderr = <<>>
    /\ mergeAt = 0
    /\ collected = NilPackages
    /\ collectedSteps = <<>>
    /\ collectErr = "nil"
    /\ logged = <<>>
    /\ parserRuns = 0
    /\ cpc = "idle"

\* The plugin is not running.
PluginIdle ==
    /\ pluginData = [stored |-> FALSE, data |-> <<>>]
    /\ collectorCalls = 0
    /\ evalCalls = 0
    /\ evalData = <<>>
    /\ paths = 0
    /\ path = 0
    /\ executed = <<>>
    /\ created = <<>>
    /\ results = <<>>
    /\ response = NoResponse
    /\ evalStatus = "none"
    /\ evalErr = "nil"
    /\ epc = "idle"

Init ==
    /\ CollectorIdle
    /\ PluginIdle
    /\ version \in RawVersions
    /\ normalized = <<>>
    /\ pc = "call"
    /\ packageData = <<>>
    /\ packages = EmptyMap
    /\ steps = <<>>
    /\ ppc = "idle"

CallGetVersion ==
    /\ pc = "call"
    /\ normalized' = getVersion(version)
    /\ pc' = "done"
    /\ UNCHANGED <<version, packageData, packages, steps, ppc, collectorVars, pluginVars>>

Next == CallGetVersion

Spec == Init /\ [][Next]_vars

InitPackages ==
    /\ CollectorIdle
    /\ PluginIdle
    /\ packageData \in Listings
    /\ packages = EmptyMap
    /\ steps = <<>>
    /\ ppc = "call"
    /\ version = <<>>
    /\ normalized = <<>>
    /\ pc = "idle"

CallGetPackages ==
    /\ ppc = "call"
    /\ LET r == getPackages(packageData)
       IN  /\ packages' = r.packages
           /\ steps' = r.steps
    /\ ppc' = "done"
    /\ UNCHANGED <<version, normalized, pc, packageData, collectorVars, pluginVars>>

NextPackages == CallGetPackages

SpecPackages == InitPackages /\ [][NextPackages]_vars

\* The command has run; the collector is about to read what it left.
InitCollector ==
    /\ PluginIdle
    /\ version = <<>> /\ normalized = <<>> /\ pc = "idle"
    /\ packageData = <<>> /\ packages = EmptyMap /\ steps = <<>> /\ ppc = "idle"
    /\ dpkgExit \in ExitStatuses
    /\ \/ /\ collector = "packages"
          /\ dpkgStdout \in StdoutTexts
          /\ dpkgStderr \in StderrTexts
          /\ mergeAt = 0
       \/ /\ collector = "debian"
          /\ dpkgStdout \in JsonDocuments
          /\ \/ dpkgStderr = <<>> /\ mergeAt = 0
             \/ dpkgStderr = <<Token("stderr")>> /\ mergeAt \in 0..Len(dpkgStdout)
    /\ collected = NilPackages
    /\ collectedSteps = <<>>
    /\ collectErr = "nil"
    /\ logged = <<>>
    /\ parserRuns = 0
    /\ cpc = "call"

CallGetInstalledPackages ==
    /\ cpc = "call"
    /\ collector = "packages"
    /\ LET r == GetInstalledPackages(dpkgExit, dpkgStdout, dpkgStderr)
       IN  /\ collected' = r.packages
           /\ collectedSteps' = r.steps
           /\ collectErr' = r.err
           /\ logged' = r.logged
           /\ parserRuns' = r.parserRuns
    /\ cpc' = "done"
    /\ UNCHANGED <<version, normalized, pc, packageData, packages, steps, ppc,
                   collector, dpkgExit, dpkgStdout, dpkgStderr, mergeAt, pluginVars>>

CallDebianGetInstalledPackages ==
    /\ cpc = "call"
    /\ collector = "debian"
    /\ LET r == DebianGetInstalledPackages(dpkgExit, MergedOutput(dpkgStdout, dpkgStderr, mergeAt))
       IN  /\ collected' = r.packages
           /\ collectErr' = r.err
           /\ parserRuns' = r.parserRuns
    /\ cpc' = "done"
    /\ UNCHANGED <<version, normalized, pc, packageData, packages, steps, ppc,
                   collector, dpkgExit, dpkgStdout, dpkgStderr, mergeAt,
                   collectedSteps, logged, pluginVars>>

NextCollector == CallGetInstalledPackages \/ CallDebianGetInstalledPackages

SpecCollector == InitCollector /\ [][NextCollector]_vars

(***************************************************************************)
(* The plugin's state machine: PrepareForEval, then Eval calls, each a     *)
(* collection and a loop over the policy paths of its request.             *)
(***************************************************************************)
otherVars == <<version, normalized, pc, packageData, packages, steps, ppc, collectorVars>>

InitPlugin ==
    /\ version = <<>> /\ normalized = <<>> /\ pc = "idle"
    /\ packageData = <<>> /\ packages = EmptyMap /\ steps = <<>> /\ ppc = "idle"
    /\ CollectorIdle
    /\ pluginData = [stored |-> FALSE, data |-> <<>>]
    /\ collectorCalls = 0
    /\ evalCalls = 0
    /\ evalData = <<>>
    /\ paths = 0
    /\ path = 0
    /\ executed = <<>>
    /\ created = <<>>
    /\ results = <<>>
    /\ response = NoResponse
    /\ evalStatus = "none"
    /\ evalErr = "nil"
    /\ epc = "start"

\* PrepareForEval: the collector is called and what it returns is stored.
PrepareForEval ==
    /\ epc = "start"
    /\ \E data \in HostPackages : pluginData' = [stored |-> TRUE, data |-> data]
    /\ collectorCalls' = collectorCalls + 1
    /\ epc' = "ready"
    /\ UNCHANGED <<evalCalls, evalData, paths, path, executed, created, results, response,
                   evalStatus, evalErr, otherVars>>

\* Eval up to its loop: GetInstalledPackages succeeds and the loop over the
\* request's policy paths starts.
EvalCollects ==
    /\ epc \in {"ready", "returned"}
    /\ evalCalls < MaxEvals
    /\ evalCalls' = evalCalls + 1
    /\ collectorCalls' = collectorCalls + 1
    /\ \E data \in HostPackages : evalData' = data
    /\ \E n \in 0..MaxPaths : paths' = n
    /\ path' = 1
    /\ executed' = <<>>
    /\ created' = <<>>
    /\ results' = <<>>
    /\ response' = NoResponse
    /\ evalStatus' = "none"
    /\ evalErr' = "nil"
    /\ epc' = "loop"
    /\ UNCHANGED <<pluginData, otherVars>>

\* Eval when GetInstalledPackages fails: no response, the error.
EvalCollectionFails ==
    /\ epc \in {"ready", "returned"}
    /\ evalCalls < MaxEvals
    /\ evalCalls' = evalCalls + 1
    /\ collectorCalls' = collectorCalls + 1
    /\ evalData' = <<>>
    /\ \E n \in 0..MaxPaths : paths' = n
    /\ path' = 1
    /\ executed' = <<>>
    /\ created' = <<>>
    /\ results' = <<>>
    /\ response' = NoResponse
    /\ evalStatus' = "none"
    /\ evalErr' = "error getting installed packages"
    /\ epc' = "returned"
    /\ UNCHANGED <<pluginData, otherVars>>

\* One turn of the loop in which the policy execution fails: FAILURE.
EvalExecuteFails ==
    /\ epc = "loop"
    /\ path <= paths
    /\ executed' = Append(executed, path)
    /\ evalStatus' = "FAILURE"
    /\ evalErr' = "execute"
    /\ epc' = "returned"
    /\ UNCHANGED <<pluginData, collectorCalls, evalCalls, evalData, paths, path, created,
                   results, response, otherVars>>

\* One turn of the loop to the end: the policy is executed, the response is
\* built from its results and CreateResult takes it.
EvalPath ==
    /\ epc = "loop"
    /\ path <= paths
    /\ \E policyResults \in PolicyResults :
           /\ results' = policyResults
           /\ response' = BuildResponse(policyResults, [eval |-> evalCalls, path |-> path])
    /\ executed' = Append(executed, path)
    /\ created' = Append(created, path)
    /\ path' = path + 1
    /\ UNCHANGED <<pluginData, collectorCalls, evalCalls, evalData, paths,
                   evalStatus, evalErr, epc, otherVars>>

\* One turn of the loop in which sdk.SeededUUID fails after the response is
\* built: no response, the error.
EvalSeededUUIDFails ==
    /\ epc = "loop"
    /\ path <= paths
    /\ \E policyResults \in PolicyResults :
           /\ results' = policyResults
           /\ response' = BuildResponse(policyResults, [eval |-> evalCalls, path |-> path])
    /\ executed' = Append(executed, path)
    /\ evalStatus' = "none"
    /\ evalErr' = "seeded uuid"
    /\ epc' = "returned"
    /\ UNCHANGED <<pluginData, collectorCalls, evalCalls, evalData, paths, path, created,
                   otherVars>>

\* EvalCreateResultFails that logs the error and goes on to the next path.
EvalCreateResultFailsAndGoesOn ==
    /\ epc = "loop"
    /\ path <= paths
    /\ \E policyResults \in PolicyResults :
           /\ results' = policyResults
           /\ response' = BuildResponse(policyResults, [eval |-> evalCalls, path |-> path])
    /\ executed' = Append(executed, path)
    /\ path' = path + 1
    /\ UNCHANGED <<pluginData, collectorCalls, evalCalls, evalData, paths, created,
                   evalStatus, evalErr, epc, otherVars>>

\* One turn of the loop in which CreateResult fails: FAILURE.
EvalCreateResultFails ==
    /\ epc = "loop"
    /\ path <= paths
    /\ \E policyResults \in PolicyResults :
           /\ results' = policyResults
           /\ response' = BuildResponse(policyResults, [eval |-> evalCalls, path |-> path])
    /\ executed' = Append(executed, path)
    /\ evalStatus' = "FAILURE"
    /\ evalErr' = "create result"
    /\ epc' = "returned"
    /\ UNCHANGED <<pluginData, collectorCalls, evalCalls, evalData, paths, path, created,
                   otherVars>>

\* The loop is over: SUCCESS.
EvalSucceeds ==
    /\ epc = "loop"
    /\ path > paths
    /\ evalStatus' = "SUCCESS"
    /\ evalErr' = "nil"
    /\ epc' = "returned"
    /\ UNCHANGED <<pluginData, collectorCalls, evalCalls, evalData, paths, path, executed,
                   created, results, response, otherVars>>

NextPlugin ==
    \/ PrepareForEval
    \/ EvalCollects
    \/ EvalCollectionFails
    \/ EvalExecuteFails
    \/ EvalPath
    \/ EvalSeededUUIDFails
    \/ EvalCreateResultFails
    \/ EvalSucceeds

SpecPlugin == InitPlugin /\ [][NextPlugin]_vars

(***************************************************************************)
(* Vocabulary of the properties, defined by positions and independent of   *)
(* the operators above.                                                    *)
(***************************************************************************)
Positions(s, chars) == {i \in 1..Len(s) : s[i] \in chars}

Has(s, chars) == Positions(s, chars) # {}

\* The smallest position of s holding one of chars (there is one).
FirstOf(s, chars) == CHOOSE i \in Positions(s, chars) : \A j \in Positions(s, chars) : i <= j

\* The text after the first ':' of s, s itself without one.
AfterFirstColon(s) ==
    IF Has(s, {":"}) THEN SubSeq(s, FirstOf(s, {":"}) + 1, Len(s)) ELSE s

\* The text before the first '-', '+' or '~' of s, s itself without one.
BeforeFirstSuffixChar(s) ==
    IF Has(s, {"-", "+", "~"}) THEN SubSeq(s, 1, FirstOf(s, {"-", "+", "~"}) - 1) ELSE s

\* What is left of a raw version after the epoch and the suffix are gone.
Stripped(s) == BeforeFirstSuffixChar(AfterFirstColon(s))

\* The number of sep-separated fields of s, and the k-th of them.
NumFields(s, sep) == Cardinality(Positions(s, {sep})) + 1

NthSep(s, sep, k) ==
    CHOOSE i \in Positions(s, {sep}) : Cardinality({j \in Positions(s, {sep}) : j < i}) = k - 1

Field(s, sep, k) ==
    LET lo == IF k = 1 THEN 0 ELSE NthSep(s, sep, k - 1)
        hi == IF k = NumFields(s, sep) THEN Len(s) + 1 ELSE NthSep(s, sep, k)
    IN  SubSeq(s, lo + 1, hi - 1)

AllDigits(s) == \A i \in 1..Len(s) : s[i] \in Digits

\* A non-empty run of digits.
IsNumber(s) == Len(s) > 0 /\ AllDigits(s)

\* "0", or digits that do not start with '0'.
IsCanonicalNumber(s) == IsNumber(s) /\ (s = <<"0">> \/ s[1] # "0")

\* ^\d+\.\d+\.\d+$
MatchesPattern(s) ==
    /\ NumFields(s, ".") = 3
    /\ \A k \in 1..3 : IsNumber(Field(s, ".", k))

\* The longest prefix of s that holds digits only.
LeadingDigits(s) ==
    LET n == CHOOSE k \in 0..Len(s) :
                 /\ \A j \in 1..k : s[j] \in Digits
                 /\ k < Len(s) => s[k + 1] \notin Digits
    IN  SubSeq(s, 1, n)

\* t is s without some of its leading '0' characters.
DropsOnlyLeadingZeros(s, t) ==
    /\ Len(t) <= Len(s)
    /\ LET k == Len(s) - Len(t)
       IN  /\ \A j \in 1..k : s[j] = "0"
           /\ t = SubSeq(s, k + 1, Len(s))

Done == pc = "done"

(***************************************************************************)
(* The properties of getVersion.                                           *)
(***************************************************************************)

\* C1: for every raw string, getVersion's result matches ^\d+\.\d+\.\d+$:
\* exactly three components, each a non-empty run of digits.
C1_ResultMatchesPattern == Done => MatchesPattern(normalized)

\* C2: no component of getVersion's result has a leading zero: a component
\* that is not empty (emptiness is C1's matter) is "0" or starts with a digit
\* 1-9, so a segment of several zeros comes out as "0".
C2_NoLeadingZero ==
    Done => \A k \in 1..NumFields(normalized, ".") :
                LET c == Field(normalized, ".", k)
                IN  c # <<>> => (c = <<"0">> \/ c[1] \in Digits \ {"0"})

\* C3: the epoch strip comes first and removes up to the first ':' only: for
\* a raw string with a ':', the result is what the remaining steps make of
\* the text after the first ':', and when that text holds no further ':' it
\* is getVersion of that text, whatever the epoch holds.
C3_EpochStrippedFirst ==
    (Done /\ Has(version, {":"})) =>
        /\ normalized = NormalizeAfterEpoch(AfterFirstColon(version))
        /\ ~Has(AfterFirstColon(version), {":"}) =>
               normalized = getVersion(AfterFirstColon(version))

\* C3's case: an epoch that holds a suffix character, before a version.
C3_Witness ==
    /\ Done
    /\ version = <<"1", "-", ":", "1">>
    /\ normalized = <<"1", ".", "0", ".", "0">>

\* C4: for a raw string without ':' that holds a '-', '+' or '~', the result
\* is getVersion of the text p before the first of them; and when p is three
\* components, each "0" or digits without a leading zero, the result is p.
C4_SuffixStripped ==
    (Done /\ ~Has(version, {":"}) /\ Has(version, {"-", "+", "~"})) =>
        LET p == BeforeFirstSuffixChar(version)
        IN  /\ normalized = getVersion(p)
            /\ (NumFields(p, ".") = 3 /\ \A k \in 1..3 : IsCanonicalNumber(Field(p, ".", k)))
                   => normalized = p

\* C4's case: three canonical components before a suffix character.
C4_Witness ==
    /\ Done
    /\ version = <<"1", ".", "2", ".", "3", "-", "1", "~", "u", "b", "u", "n", "t", "u", "1">>
    /\ normalized = <<"1", ".", "2", ".", "3">>

\* C5: each of the first three segments of the stripped text gives its
\* component from its longest leading run of digits alone: the component is
\* that run less leading zeros, so a digit after the first non-digit never
\* shows and a segment of digits only is taken whole.
C5_SegmentCutAtFirstNonDigit ==
    Done => LET s == Stripped(version)
                n == IF NumFields(s, ".") < 3 THEN NumFields(s, ".") ELSE 3
            IN  /\ NumFields(normalized, ".") >= n
                /\ \A k \in 1..n :
                       DropsOnlyLeadingZeros(LeadingDigits(Field(s, ".", k)),
                                             Field(normalized, ".", k))

\* C5's case: a digit behind a letter in a segment is dropped.
C5_Witness ==
    /\ Done
    /\ version = <<"2", "5", ".", "2", "2", "u", "b", "u", "n", "t", "u", "1", ".", "4", "4", "m", "y", "s", "t", "r", "i", "n", "g", "1">>
    /\ normalized = <<"2", "5", ".", "2", "2", ".", "4", "4">>

\* A raw version cut before the '.' that ends the third segment of its
\* stripped text: its epoch and its first three segments.
UpToThirdSegment(v) ==
    LET epoch == Len(v) - Len(AfterFirstColon(v))
    IN  SubSeq(v, 1, epoch + NthSep(Stripped(v), ".", 3) - 1)

\* C6: the result holds exactly two '.'; with n < 3 segments in the stripped
\* text the components after the n-th are "0" and the first n come from the
\* segments in order; with n > 3 the result is that of the first three
\* segments alone: that of the raw string cut after its third segment.
C6_ExactlyThreeComponents ==
    Done => LET s == Stripped(version)
                n == NumFields(s, ".")
            IN  /\ Cardinality(Positions(normalized, {"."})) = 2
                /\ n < 3 =>
                       /\ \A k \in (n + 1)..3 : Field(normalized, ".", k) = <<"0">>
                       /\ \A k \in 1..n :
                              DropsOnlyLeadingZeros(LeadingDigits(Field(s, ".", k)),
                                                    Field(normalized, ".", k))
                /\ n > 3 => normalized = getVersion(UpToThirdSegment(version))

\* C6's cases: fewer than three segments, and more than three.
C6_Witness ==
    /\ Done
    /\ \/ version = <<"1", ".", "1">> /\ normalized = <<"1", ".", "1", ".", "0">>
       \/ version = <<"2", "5", ".", "2", ".", "5", ".", "1", ".", "6">> /\ normalized = <<"2", "5", ".", "2", ".", "5">>

\* C7: getVersion leaves its own results as they are.
C7_Idempotent == Done => getVersion(normalized) = normalized

\* C7's case: a raw string that is not canonical, normalised.
C7_Witness ==
    /\ Done
    /\ version = <<"2", "4", ".", "0", "0", "4", ".", "6", "0", "-", "1", "u", "b", "u", "n", "t", "u", "7", ".", "1">>
    /\ normalized = <<"2", "4", ".", "4", ".", "6", "0">>
    /\ getVersion(normalized) = normalized

(***************************************************************************)
(* The properties of getPackages.                                          *)
(***************************************************************************)
PackagesDone == ppc = "done"

\* The lines of a text, in order.
LinesOf(text) == [k \in 1..NumFields(text, "\n") |-> Field(text, "\n", k)]

Spaces(line) == Cardinality(Positions(line, {" "}))

\* A line that yields exactly two tokens.
WellFormed(line) == Spaces(line) = 1

BeforeFirstSpace(line) == SubSeq(line, 1, FirstOf(line, {" "}) - 1)

AfterFirstSpace(line) == SubSeq(line, FirstOf(line, {" "}) + 1, Len(line))

\* The well-formed lines among lines, each ended by a line break.
RECURSIVE WellFormedOnly(_)
WellFormedOnly(lines) ==
    IF Len(lines) = 0 THEN <<>>
    ELSE IF WellFormed(Head(lines))
         THEN Head(lines) \o <<"\n">> \o WellFormedOnly(Tail(lines))
         ELSE WellFormedOnly(Tail(lines))

\* C8: a malformed line only removes itself: the names of the map are those
\* of the well-formed lines, the map is the one the text gives with its
\* malformed lines taken out, and it is empty when no line is well-formed.
C8_MalformedLineSkipped ==
    PackagesDone =>
        LET lines == LinesOf(packageData)
            good  == {k \in DOMAIN lines : WellFormed(lines[k])}
        IN  /\ DOMAIN packages = {BeforeFirstSpace(lines[k]) : k \in good}
            /\ packages = getPackages(WellFormedOnly(lines)).packages
            /\ good = {} => packages = EmptyMap

\* C8's case: a well-formed line between two malformed ones keeps its entry.
C8_Witness ==
    /\ PackagesDone
    /\ LET lines == LinesOf(packageData)
       IN  \E k \in 2..(Len(lines) - 1) :
               /\ WellFormed(lines[k])
               /\ Spaces(lines[k - 1]) = 0 /\ Len(lines[k - 1]) > 0
               /\ ~WellFormed(lines[k + 1]) /\ Len(lines[k + 1]) > 0
               /\ BeforeFirstSpace(lines[k]) \in DOMAIN packages

\* C9: every line with at least one space is split at its first space: the
\* text before it names an entry of the map, whose value (unless a later
\* line names it again) is getVersion of all the text after that space.
C9_SplitAtFirstSpace ==
    PackagesDone =>
        LET lines  == LinesOf(packageData)
            spaced == {k \in DOMAIN lines : Spaces(lines[k]) >= 1}
            name   == [k \in spaced |-> BeforeFirstSpace(lines[k])]
        IN  \A k \in spaced :
                /\ name[k] \in DOMAIN packages
                /\ (\A j \in spaced : j > k => name[j] # name[k]) =>
                       packages[name[k]] = getVersion(AfterFirstSpace(lines[k]))

\* C9 as the code has it: every line with exactly one space gives the entry
\* (text before the space) -> getVersion(text after the space), unless a later
\* such line names it again; a line with further spaces gives no entry.
C9_SplitAtOnlySpace ==
    PackagesDone =>
        LET lines  == LinesOf(packageData)
            single == {k \in DOMAIN lines : Spaces(lines[k]) = 1}
            more   == {k \in DOMAIN lines : Spaces(lines[k]) > 1}
            name   == [k \in single \cup more |-> BeforeFirstSpace(lines[k])]
        IN  /\ \A k \in single :
                   /\ name[k] \in DOMAIN packages
                   /\ (\A j \in single : j > k => name[j] # name[k]) =>
                          packages[name[k]] = getVersion(AfterFirstSpace(lines[k]))
            /\ \A k \in more :
                   (\A j \in single : name[j] # name[k]) => name[k] \notin DOMAIN packages

\* C9's case: a line with one space gives its entry and a line with two gives
\* none.
C9_Witness ==
    /\ PackagesDone
    /\ LET lines == LinesOf(packageData)
       IN  \E k, j \in DOMAIN lines :
               /\ WellFormed(lines[k])
               /\ BeforeFirstSpace(lines[k]) \in DOMAIN packages
               /\ Spaces(lines[j]) = 2
               /\ BeforeFirstSpace(lines[j]) \notin DOMAIN packages

\* C10: a name on several well-formed lines has one entry, and its value is
\* getVersion of the raw version on the last of them.
C10_LastOccurrenceWins ==
    PackagesDone =>
        LET lines == LinesOf(packageData)
            good  == {k \in DOMAIN lines : WellFormed(lines[k])}
            name  == [k \in good |-> BeforeFirstSpace(lines[k])]
        IN  \A n \in {name[k] : k \in good} :
                LET occurrences == {k \in good : name[k] = n}
                    last == CHOOSE k \in occurrences : \A j \in occurrences : j <= k
                IN  /\ n \in DOMAIN packages
                    /\ packages[n] = getVersion(AfterFirstSpace(lines[last]))

\* C10's case: the same name on two lines with another line between them and
\* different versions: the later version is the entry.
C10_Witness ==
    /\ PackagesDone
    /\ LET lines == LinesOf(packageData)
       IN  \E k, j \in {i \in DOMAIN lines : WellFormed(lines[i])} :
               /\ k + 1 < j
               /\ BeforeFirstSpace(lines[k]) = BeforeFirstSpace(lines[j])
               /\ getVersion(AfterFirstSpace(lines[k])) # getVersion(AfterFirstSpace(lines[j]))
               /\ packages[BeforeFirstSpace(lines[j])] = getVersion(AfterFirstSpace(lines[j]))

(***************************************************************************)
(* The properties of the collectors.  The exit status is that of the       *)
(* command the collector runs and waits for.                               *)
(***************************************************************************)
CollectorDone == cpc = "done"

ParsedFromStdout ==
    IF collector = "packages"
    THEN SomePackages(getPackages(dpkgStdout).packages)
    ELSE jsonUnmarshal(dpkgStdout).packages

\* C12: text on standard error does not matter when the exit status is 0:
\* the collector returns no error and the map parsed from standard output
\* alone, whatever was written to standard error.
C12_StderrIsOnlyAWarning ==
    (CollectorDone /\ dpkgExit = 0) =>
        /\ collectErr = "nil"
        /\ collected = ParsedFromStdout

\* C13: getPackages returns one step, whose number is the number of entries
\* of the map (the distinct names of the well-formed lines); a successful
\* GetInstalledPackages returns the "Get installed packages" step and then
\* that step.
C13_OneStepCountingTheEntries ==
    (CollectorDone /\ collector = "packages") =>
        LET r     == getPackages(dpkgStdout)
            lines == LinesOf(dpkgStdout)
            names == {BeforeFirstSpace(lines[k]) : k \in {i \in DOMAIN lines : WellFormed(lines[i])}}
        IN  /\ Len(r.steps) = 1
            /\ r.steps[1].Normalized = Cardinality(DOMAIN r.packages)
            /\ r.steps[1].Normalized = Cardinality(names)
            /\ collectErr = "nil" =>
                   /\ Len(collectedSteps) = 2
                   /\ collectedSteps[1].Title = "Get installed packages"
                   /\ collectedSteps[2] = r.steps[1]
                   /\ collectedSteps[2].Normalized = Cardinality(DOMAIN collected.entries)

\* C13's case: a listing that names one package on two lines, collected.
C13_Witness ==
    /\ CollectorDone
    /\ collector = "packages"
    /\ dpkgExit = 0
    /\ dpkgStdout = <<"a", " ", "1", "\n", "a", " ">>
    /\ Len(collectedSteps) = 2
    /\ collectedSteps[2].Normalized = 1


(***************************************************************************)
(* Properties of the plugin.                                               *)
(***************************************************************************)
EvalReturned == epc = "returned"

\* C14: PrepareForEval collects the package data once and stores it; every
\* Eval call that follows evaluates the stored data and does not invoke the
\* collector again, so the collector is invoked exactly once in a scheduled
\* execution.
C14_EvalUsesStoredData ==
    epc # "start" =>
        /\ collectorCalls = 1
        /\ (epc = "loop" => evalData = pluginData.data)

\* The observations and the findings of the response made for the r-th
\* policy result.
ObservationsOf(r) ==
    {i \in DOMAIN response.observations : response.observations[i].result = r}

FindingsOf(r) ==
    {i \in DOMAIN response.findings : response.findings[i].result = r}

\* C15: every policy result of a response has exactly one observation; with
\* no violation it has exactly one finding, satisfied; with n > 0 violations
\* it has exactly n findings, each not satisfied and each referencing the
\* UUID of that result's observation; no finding references an observation
\* of another policy result.
C15_ObservationAndFindingsPerResult ==
    /\ \A r \in 1..Len(results) :
           /\ Cardinality(ObservationsOf(r)) = 1
           /\ \A o \in ObservationsOf(r) :
                  IF results[r] = 0
                  THEN /\ Cardinality(FindingsOf(r)) = 1
                       /\ \A f \in FindingsOf(r) : response.findings[f].state = "satisfied"
                  ELSE /\ Cardinality(FindingsOf(r)) = results[r]
                       /\ \A f \in FindingsOf(r) :
                              /\ response.findings[f].state = "not-satisfied"
                              /\ response.findings[f].related
                                     = << response.observations[o].uuid >>
    /\ \A f \in DOMAIN response.findings :
           /\ response.findings[f].result \in 1..Len(results)
           /\ \A j \in DOMAIN response.findings[f].related :
                  \A o \in DOMAIN response.observations :
                      response.observations[o].uuid = response.findings[f].related[j]
                          => response.observations[o].result = response.findings[f].result
    /\ \A o \in DOMAIN response.observations :
           response.observations[o].result \in 1..Len(results)

\* A response for a compliant policy result and one with two violations.
C15_Witness ==
    /\ results = <<0, 2>>
    /\ Len(response.observations) = 2
    /\ Len(response.findings) = 3

\* The paths 1..n in order.
FirstPaths(n) == [i \in 1..n |-> i]

\* C16: the paths are taken in order and Eval stops at the first failure: a
\* failed collection returns the error with no response and executes no
\* policy; a failed policy execution or CreateResult at path k returns FAILURE
\* with the error, the results of the paths 1..k-1 created and no other; and
\* SUCCESS comes with a nil error and only when every path was executed and
\* its result created exactly once.
C16_StopsAtFirstFailure ==
    /\ executed = FirstPaths(Len(executed))
    /\ created = FirstPaths(Len(created))
    /\ EvalReturned =>
           /\ evalErr = "error getting installed packages" =>
                  /\ evalStatus = "none"
                  /\ executed = <<>>
                  /\ created = <<>>
           /\ evalErr \in {"execute", "create result"} =>
                  /\ evalStatus = "FAILURE"
                  /\ path \in 1..paths
                  /\ executed = FirstPaths(path)
                  /\ created = FirstPaths(path - 1)
           /\ evalStatus = "FAILURE" => evalErr # "nil"
           /\ evalStatus = "SUCCESS" =>
                  /\ evalErr = "nil"
                  /\ executed = FirstPaths(paths)
                  /\ created = FirstPaths(paths)

\* CreateResult fails for the second of two paths.
C16_Witness ==
    /\ EvalReturned
    /\ evalStatus = "FAILURE"
    /\ evalErr = "create result"
    /\ paths = 2
    /\ path = 2
    /\ created = <<1>>


====
